---- MODULE Spec2Model ----
(***************************************************************************)
(* Model of the live voice-conversation component (LiveConversation) of    *)
(* the Fluency-English application: session lifecycle, capture pipeline,   *)
(* playback scheduling on the virtual output clock, the transport encoding *)
(* of the audio and the loudness visualizer.                               *)
(*                                                                         *)
(* Every call of startSession creates one session (its closure: the two    *)
(* audio contexts, the microphone stream, the script processor and the     *)
(* four transport callbacks).  The React refs (streamRef, audioContextRef, *)
(* sessionPromiseRef, sessionRef, nextStartTimeRef, sourcesRef) are shared *)
(* by all sessions of the component.  Time is counted in ticks of 0.1 s.   *)
(***************************************************************************)
EXTENDS Integers, Sequences, FiniteSets, TLC

\* ------------------------------------------------------------------ bounds
MaxSessions == 2      \* calls of startSession explored
MaxPlaySessions == 1  \* calls of startSession explored together with playback
MaxChunks   == 2      \* inbound audio chunks scheduled
MaxQuanta   == 1      \* time quanta every output context may run for
TickLen     == 3      \* length of a time quantum in ticks
MaxSendSessions == 1  \* calls of startSession explored together with sending
MaxFrames   == 2      \* capture callbacks explored
MaxLen      == 3      \* samples in a frame (4096 in the source)
MaxSaves    == 52     \* calls of saveHistoryItem explored

Sessions == 1..MaxSessions
Durs     == {3, 5}    \* chunk durations in ticks (0.3 s and 0.5 s)
Samples  == {-1, 0, 1} \* amplitude of a captured frame (0: silence)
Levels   == -2..2      \* sample values of a frame (1: full scale)
Int16s   == {-32768, -1, 0, 1, 255, 256, 32767}  \* 16-bit samples of a frame
Scale    == 10         \* loudness is counted in tenths of full scale
CanvasHeight == 100    \* line 197
Pad      == 64         \* the character = of the transport encoding
HistoryLimit == 50     \* part_003 line 12: slice(0, 50)

VARIABLES
    status,            \* useState status (line 27)
    nStarted,          \* number of startSession calls made so far
    pc,                \* position of each startSession call
    inputCtx,          \* per session: the 16 kHz capture context
    outputCtx,         \* per session: the 24 kHz output context
    stream,            \* per session: the MediaStream of getUserMedia
    handler,           \* per session: scriptProcessor.onaudioprocess installed
    transport,         \* per session: the connection of ai.live.connect
    connects,          \* per session: number of connectLiveSession calls
    streamRef,         \* session whose stream the ref holds, 0 for null
    audioContextRef,   \* session whose output context the ref holds, 0 for null
    sessionPromiseRef, \* session whose connect promise the ref holds, 0 for null
    sessionRef,        \* session whose handle the ref holds, 0 for null
    nextStartTimeRef,  \* the virtual output clock
    sourcesRef,        \* the active playback set: indices into units
    currentTime,       \* per session: outputCtx.currentTime
    units,             \* every playback unit scheduled so far, in order
    epoch,             \* number of interruptions that followed a scheduled unit
    lastInterrupted,   \* the message handled last carried the interrupted flag
    volume,            \* useState volume (line 28)
    queue,             \* per session: frames waiting on the pending promise
    sent,              \* sendRealtimeInput calls made, in order
    nCaptured,         \* number of capture callbacks run
    userStopped,       \* the user has stopped and not started again since
    stoppedEarly,      \* that stop came while the start was still in progress
    mounted,           \* the component is mounted (canvasRef.current is set)
    storage,           \* localStorage under STORAGE_KEY: a JSON text, <<>> for none
    saved,             \* the items saved since the storage was last empty, in order
    nSaved,            \* number of saveHistoryItem calls made so far
    errored,           \* per session: onError has fired while its transport was open
    logged,            \* the callback that ran last called console.error
    rafQueue,          \* the pending requestAnimationFrame callbacks, in order
    drawn,             \* height of the bar drawn last on the canvas
    pureIn,            \* input of the pure functions (encodePCM, loudness)
    pureOut            \* their result

vars == <<status, nStarted, pc, inputCtx, outputCtx, stream, handler, transport,
          connects, streamRef, audioContextRef, sessionPromiseRef, sessionRef,
          nextStartTimeRef, sourcesRef, currentTime, units, epoch, lastInterrupted,
          volume, queue, sent,
          nCaptured, userStopped, stoppedEarly, errored, logged, rafQueue, drawn,
          pureIn, pureOut,
          mounted, storage, saved, nSaved>>

lifeVars  == <<status, nStarted, pc, inputCtx, outputCtx, stream, handler,
               transport, connects, streamRef, audioContextRef,
               sessionPromiseRef, sessionRef, userStopped, stoppedEarly>>
playVars  == <<nextStartTimeRef, sourcesRef, units, epoch, lastInterrupted>>
capVars   == <<volume, queue, sent, nCaptured>>
viewVars  == <<rafQueue, drawn, mounted>>
histVars  == <<storage, saved, nSaved>>
pureVars  == <<pureIn, pureOut>>

\* ------------------------------------------------------------ pure helpers
\* A slip at line 131: Math.min in place of Math.max.
MaxPicksSmaller(a, b) == IF a >= b THEN b ELSE a

\* line 131: Math.max
Max(a, b) == IF a >= b THEN a ELSE b

\* A slip at line 131: the unit is started at the context's current time.
StartTimeNow(clock, now) == now

\* line 131: nextStartTimeRef.current = Math.max(nextStartTimeRef.current, outputCtx.currentTime)
StartTime(clock, now) == Max(clock, now)

\* A slip at line 136: = in place of +=.
AdvanceClockAssign(start, dur) == dur

\* line 136: nextStartTimeRef.current += buffer.duration
AdvanceClock(start, dur) == start + dur

\* line 145: nextStartTimeRef.current = 0
ResetClock == 0

\* Slips in the value handed to setStatus at lines 86 and 153.
StatusOnOpenStale == "connecting"
StatusOnErrorIdle == "idle"

\* the values handed to setStatus
StatusOnStart == "connecting"   \* line 67
StatusOnOpen  == "connected"    \* line 86
StatusOnClose == "idle"         \* line 149
StatusOnError == "error"        \* line 153
StatusOnCatch == "error"        \* line 162
StatusOnStop  == "idle"         \* line 180

\* ------------------------------------------------------- encoding, decoding
\* The transport encoding is a string over 64 characters and Pad; a
\* character is written as its index in the alphabet, a binary string as the
\* sequence of its code units.

\* the two's-complement pattern of a 16-bit sample, and back
U16(x) == (x + 65536) % 65536
S16(u) == IF u >= 32768 THEN u - 65536 ELSE u

\* line 100: the store into the Int16Array wraps modulo 2^16
ToInt16(x) == S16(x % 65536)

\* line 103: new Uint8Array(int16.buffer), low byte first
RECURSIVE FrameBytes(_)
FrameBytes(samples) ==
    IF samples = <<>> THEN <<>>
    ELSE <<U16(Head(samples)) % 256, U16(Head(samples)) \div 256>>
             \o FrameBytes(Tail(samples))

\* line 122: new Int16Array(audioData.buffer), for an even number of bytes
RECURSIVE BytesFrame(_)
BytesFrame(bytes) ==
    IF Len(bytes) < 2 THEN <<>>
    ELSE <<S16(bytes[1] + 256 * bytes[2])>> \o BytesFrame(SubSeq(bytes, 3, Len(bytes)))

\* line 10: String.fromCharCode
FromCharCode(n) == n % 65536

\* A slip at line 22: the code unit is taken for a 7-bit character.
CharCodeAtAscii(c) == c % 128

\* line 22: binaryString.charCodeAt(i)
CharCodeAt(c) == c

\* line 22: the store into the Uint8Array
ToUint8(n) == n % 256

\* line 12: btoa, three code units to four characters
RECURSIVE Btoa(_)
Btoa(str) ==
    IF str = <<>> THEN <<>>
    ELSE IF Len(str) = 1
    THEN <<str[1] \div 4, (str[1] % 4) * 16, Pad, Pad>>
    ELSE IF Len(str) = 2
    THEN <<str[1] \div 4, (str[1] % 4) * 16 + (str[2] \div 16),
           (str[2] % 16) * 4, Pad>>
    ELSE <<str[1] \div 4, (str[1] % 4) * 16 + (str[2] \div 16),
           (str[2] % 16) * 4 + (str[3] \div 64), str[3] % 64>>
             \o Btoa(SubSeq(str, 4, Len(str)))

\* line 17: atob, of a string that btoa can produce
RECURSIVE Atob(_)
Atob(b64) ==
    IF Len(b64) < 4 THEN <<>>
    ELSE LET c1 == b64[1] * 4 + (b64[2] \div 16)
             c2 == (b64[2] % 16) * 16 + (b64[3] \div 4)
             c3 == (b64[3] % 4) * 64 + b64[4]
         IN  IF b64[3] = Pad THEN <<c1>>
             ELSE IF b64[4] = Pad THEN <<c1, c2>>
             ELSE <<c1, c2, c3>> \o Atob(SubSeq(b64, 5, Len(b64)))

\* lines 6-13
EncodePCM(bytes) == Btoa([i \in 1..Len(bytes) |-> FromCharCode(bytes[i])])

\* lines 16-24
DecodeAudio(base64) ==
    LET binaryString == Atob(base64)
    IN  [i \in 1..Len(binaryString) |-> ToUint8(CharCodeAt(binaryString[i]))]

\* ----------------------------------------------------------------- loudness
\* A slip at line 93: the loop starts at the second sample.
RECURSIVE SumSqSkipFirst(_)
SumSqSkipFirst(frame) ==
    IF Len(frame) < 2 THEN 0
    ELSE frame[2] * frame[2] + SumSqSkipFirst(Tail(frame))

\* lines 92-93: the sum of the squares of the samples
RECURSIVE SumSq(_)
SumSq(frame) ==
    IF frame = <<>> THEN 0
    ELSE Head(frame) * Head(frame) + SumSq(Tail(frame))

\* Math.sqrt, to the resolution of Scale
Isqrt(n) == CHOOSE r \in 0..n : r * r <= n /\ n < (r + 1) * (r + 1)

\* line 94: Math.sqrt(sum / inputData.length), in units of 1 / Scale.  The
\* resolution is fine enough for every frame of the sample grid, as double
\* precision is for every frame of 32-bit floats.
Loudness(frame) == Isqrt((SumSq(frame) * Scale * Scale) \div Len(frame))

\* line 51: Math.min(height, volume * 5 * height)
BarHeight(vol) ==
    LET h == (vol * 5 * CanvasHeight) \div Scale
    IN  IF h < CanvasHeight THEN h ELSE CanvasHeight

\* ------------------------------------------------------------------- Init
\* The component is mounted: the effect of lines 61-64 has requested the
\* first animation frame for the callback that holds the initial volume.
InitComponent ==
    /\ status = "idle"
    /\ nStarted = 0
    /\ pc = [s \in Sessions |-> "none"]
    /\ inputCtx = [s \in Sessions |-> "none"]
    /\ outputCtx = [s \in Sessions |-> "none"]
    /\ stream = [s \in Sessions |-> "none"]
    /\ handler = [s \in Sessions |-> FALSE]
    /\ transport = [s \in Sessions |-> "none"]
    /\ connects = [s \in Sessions |-> 0]
    /\ streamRef = 0
    /\ audioContextRef = 0
    /\ sessionPromiseRef = 0
    /\ sessionRef = 0
    /\ nextStartTimeRef = 0
    /\ sourcesRef = {}
    /\ currentTime = [s \in Sessions |-> 0]
    /\ units = <<>>
    /\ epoch = 0
    /\ lastInterrupted = FALSE
    /\ volume = 0
    /\ queue = [s \in Sessions |-> <<>>]
    /\ sent = <<>>
    /\ nCaptured = 0
    /\ userStopped = FALSE
    /\ stoppedEarly = FALSE
    /\ mounted = TRUE
    /\ storage = <<>>
    /\ saved = <<>>
    /\ nSaved = 0
    /\ errored = [s \in Sessions |-> FALSE]
    /\ logged = FALSE
    /\ rafQueue = <<[vol |-> 0, eff |-> TRUE]>>
    /\ drawn = 0

Init == InitComponent /\ pureIn = <<>> /\ pureOut = <<>>

\* ------------------------------------------------------------- startSession
\* The Start button is rendered only while status is idle or error (line 200).
CanStart == mounted /\ status \in {"idle", "error"} /\ nStarted < MaxSessions

\* lines 66-74: both contexts are created, the call suspends on getUserMedia.
StartOk ==
    /\ CanStart
    /\ LET s == nStarted + 1 IN
       /\ nStarted' = s
       /\ status' = StatusOnStart
       /\ inputCtx' = [inputCtx EXCEPT ![s] = "running"]
       /\ outputCtx' = [outputCtx EXCEPT ![s] = "running"]
       /\ audioContextRef' = s
       /\ pc' = [pc EXCEPT ![s] = "awaitMic"]
    /\ userStopped' = FALSE
    /\ stoppedEarly' = FALSE
    /\ UNCHANGED <<stream, handler, transport, connects, streamRef,
                   sessionPromiseRef, sessionRef, currentTime>>
    /\ UNCHANGED <<playVars, capVars>>
    /\ logged' = FALSE
    /\ UNCHANGED <<errored, viewVars, pureVars, histVars>>

\* lines 66-72, 160-163: a context constructor throws; the catch block runs in
\* the same turn.  inputMade: the capture context had been created already.
StartCtxFail(inputMade) ==
    /\ CanStart
    /\ LET s == nStarted + 1 IN
       /\ nStarted' = s
       /\ status' = StatusOnCatch
       /\ inputCtx' = [inputCtx EXCEPT ![s] = IF inputMade THEN "running" ELSE "none"]
       /\ pc' = [pc EXCEPT ![s] = "failedCtx"]
    /\ userStopped' = FALSE
    /\ stoppedEarly' = FALSE
    /\ UNCHANGED <<outputCtx, audioContextRef, stream, handler, transport, connects,
                   streamRef, sessionPromiseRef, sessionRef, currentTime>>
    /\ UNCHANGED <<playVars, capVars>>
    /\ logged' = TRUE
    /\ UNCHANGED <<errored, viewVars, pureVars, histVars>>

\* lines 74-84, 158: getUserMedia resolves; the nodes are wired and
\* connectLiveSession is called; the call suspends on the connect promise.
MicGranted(s) ==
    /\ pc[s] = "awaitMic"
    /\ stream' = [stream EXCEPT ![s] = "live"]
    /\ streamRef' = s
    /\ connects' = [connects EXCEPT ![s] = @ + 1]
    /\ transport' = [transport EXCEPT ![s] = "pending"]
    /\ sessionPromiseRef' = s
    /\ pc' = [pc EXCEPT ![s] = "awaitConnect"]
    /\ UNCHANGED <<status, nStarted, inputCtx, outputCtx, handler, audioContextRef,
                   sessionRef, currentTime, userStopped, stoppedEarly>>
    /\ UNCHANGED <<playVars, capVars>>
    /\ logged' = FALSE
    /\ UNCHANGED <<errored, viewVars, pureVars, histVars>>

\* A slip at line 74: the rejection is swallowed and startup goes on.
MicDeniedProceeds(s) == MicGranted(s)

\* lines 74, 160-163: getUserMedia rejects (permission denied, no device).
MicDenied(s) ==
    /\ pc[s] = "awaitMic"
    /\ pc' = [pc EXCEPT ![s] = "failedMic"]
    /\ status' = StatusOnCatch
    /\ UNCHANGED <<nStarted, inputCtx, outputCtx, stream, handler, transport, connects,
                   streamRef, audioContextRef, sessionPromiseRef, sessionRef,
                   currentTime, userStopped, stoppedEarly>>
    /\ UNCHANGED <<playVars, capVars>>
    /\ logged' = TRUE
    /\ UNCHANGED <<errored, viewVars, pureVars, histVars>>

\* A slip at line 106: the deferred frames are sent last in, first out.
ConnectResolvedReversed(s) ==
    /\ pc[s] = "awaitConnect"
    /\ transport[s] = "open"
    /\ pc' = [pc EXCEPT ![s] = "resolved"]
    /\ sessionRef' = s
    /\ sent' = sent \o [i \in 1..Len(queue[s]) |-> queue[s][Len(queue[s]) + 1 - i]]
    /\ queue' = [queue EXCEPT ![s] = <<>>]
    /\ UNCHANGED <<status, nStarted, inputCtx, outputCtx, stream, handler, transport,
                   connects, streamRef, audioContextRef, sessionPromiseRef,
                   currentTime, userStopped, stoppedEarly, volume, nCaptured>>
    /\ UNCHANGED playVars
    /\ logged' = FALSE
    /\ UNCHANGED <<errored, viewVars, pureVars, histVars>>

\* line 158: the connect promise resolves.  The continuation of startSession
\* was registered first, then the frames deferred on the promise (line 106)
\* are sent in the order they were registered.
ConnectResolved(s) ==
    /\ pc[s] = "awaitConnect"
    /\ transport[s] = "open"
    /\ pc' = [pc EXCEPT ![s] = "resolved"]
    /\ sessionRef' = s
    /\ sent' = sent \o queue[s]
    /\ queue' = [queue EXCEPT ![s] = <<>>]
    /\ UNCHANGED <<status, nStarted, inputCtx, outputCtx, stream, handler, transport,
                   connects, streamRef, audioContextRef, sessionPromiseRef,
                   currentTime, userStopped, stoppedEarly, volume, nCaptured>>
    /\ UNCHANGED playVars
    /\ logged' = FALSE
    /\ UNCHANGED <<errored, viewVars, pureVars, histVars>>

\* lines 158, 160-163: the connect promise rejects; frames deferred on it are lost.
ConnectRejected(s) ==
    /\ pc[s] = "awaitConnect"
    /\ transport[s] \in {"pending", "closed"}
    /\ pc' = [pc EXCEPT ![s] = "failedConnect"]
    /\ status' = StatusOnCatch
    /\ queue' = [queue EXCEPT ![s] = <<>>]
    /\ UNCHANGED <<nStarted, inputCtx, outputCtx, stream, handler, transport, connects,
                   streamRef, audioContextRef, sessionPromiseRef, sessionRef,
                   currentTime, userStopped, stoppedEarly, volume, sent, nCaptured>>
    /\ UNCHANGED playVars
    /\ logged' = TRUE
    /\ UNCHANGED <<errored, viewVars, pureVars, histVars>>

\* ------------------------------------------------------ transport callbacks
\* lines 85-115: On Open.
OnOpen(s) ==
    /\ transport[s] = "pending"
    /\ transport' = [transport EXCEPT ![s] = "open"]
    /\ status' = StatusOnOpen
    /\ handler' = [handler EXCEPT ![s] = TRUE]
    /\ UNCHANGED <<nStarted, pc, inputCtx, outputCtx, stream, connects, streamRef,
                   audioContextRef, sessionPromiseRef, sessionRef, currentTime,
                   userStopped, stoppedEarly>>
    /\ UNCHANGED <<playVars, capVars>>
    /\ logged' = FALSE
    /\ UNCHANGED <<errored, viewVars, pureVars, histVars>>

\* lines 148-150: On Close.
OnClose(s) ==
    /\ transport[s] \in {"pending", "open"}
    /\ transport' = [transport EXCEPT ![s] = "closed"]
    /\ status' = StatusOnClose
    /\ UNCHANGED <<nStarted, pc, inputCtx, outputCtx, stream, handler, connects,
                   streamRef, audioContextRef, sessionPromiseRef, sessionRef,
                   currentTime, userStopped, stoppedEarly>>
    /\ UNCHANGED <<playVars, capVars>>
    /\ logged' = FALSE
    /\ UNCHANGED <<errored, viewVars, pureVars, histVars>>

\* A slip at lines 151-154: the error callback connects again by itself.
OnErrorReconnects(s) ==
    /\ transport[s] \in {"pending", "open"}
    /\ status' = StatusOnError
    /\ connects' = [connects EXCEPT ![s] = @ + 1]
    /\ transport' = [transport EXCEPT ![s] = "pending"]
    /\ UNCHANGED <<nStarted, pc, inputCtx, outputCtx, stream, handler,
                   streamRef, audioContextRef, sessionPromiseRef, sessionRef,
                   currentTime, userStopped, stoppedEarly>>
    /\ UNCHANGED <<playVars, capVars>>
    /\ logged' = TRUE
    /\ errored' = [errored EXCEPT ![s] = @ \/ transport[s] = "open"]
    /\ UNCHANGED <<viewVars, pureVars, histVars>>

\* lines 151-154: On Error.
OnError(s) ==
    /\ transport[s] \in {"pending", "open"}
    /\ status' = StatusOnError
    /\ UNCHANGED <<nStarted, pc, inputCtx, outputCtx, stream, handler, transport,
                   connects, streamRef, audioContextRef, sessionPromiseRef, sessionRef,
                   currentTime, userStopped, stoppedEarly>>
    /\ UNCHANGED <<playVars, capVars>>
    /\ logged' = TRUE
    /\ errored' = [errored EXCEPT ![s] = @ \/ transport[s] = "open"]
    /\ UNCHANGED <<viewVars, pureVars, histVars>>

\* -------------------------------------------------------------- stopSession
\* The End Call button is rendered while status is connecting or connected.
StopTracks(st) ==
    IF streamRef # 0 THEN [st EXCEPT ![streamRef] = "stopped"] ELSE st

CloseOutput(ctx) ==
    IF audioContextRef # 0 THEN [ctx EXCEPT ![audioContextRef] = "closed"] ELSE ctx

\* the start made last is still waiting for the microphone or the connection
InProgress == nStarted > 0 /\ pc[nStarted] \in {"awaitMic", "awaitConnect"}

\* lines 166-181
Stop ==
    /\ mounted
    /\ status \in {"connecting", "connected"}
    /\ stream' = StopTracks(stream)
    /\ outputCtx' = CloseOutput(outputCtx)
    /\ status' = StatusOnStop
    /\ userStopped' = TRUE
    /\ stoppedEarly' = InProgress
    /\ UNCHANGED <<nStarted, pc, inputCtx, handler, transport, connects, streamRef,
                   audioContextRef, sessionPromiseRef, sessionRef, currentTime>>
    /\ UNCHANGED <<playVars, capVars>>
    /\ logged' = FALSE
    /\ UNCHANGED <<errored, viewVars, pureVars, histVars>>

\* ------------------------------------------------------------------ playback
\* lines 132-138: a source scheduled at start.  at is the current time of
\* its output context and gen the value of epoch at that moment: two units
\* of one gen have no interruption between them.
Unit(s, start, dur) ==
    [sess |-> s, start |-> start, dur |-> dur, st |-> "active",
     at |-> currentTime[s], gen |-> epoch]

\* line 143: sourcesRef.current.forEach(s => s.stop())
StopAll(us, active) ==
    [i \in DOMAIN us |-> [us[i] EXCEPT !.st = IF i \in active THEN "stopped" ELSE @]]

\* line 144: sourcesRef.current.clear()
ClearSet(active) == {}

\* epoch counts an interruption only when a unit was scheduled since the last one.
NextEpoch(us) == IF \E i \in DOMAIN us : us[i].gen = epoch THEN epoch + 1 ELSE epoch

\* The audio payload of a message, by what decoding makes of it: 0 for an
\* absent or empty payload (falsy at line 118), a negative number for a
\* malformed one (atob or the Int16Array view throws), else the duration of
\* the decoded buffer.
Payloads == {0, -1} \cup Durs
HasAudio(audio) == audio > 0
Malformed(audio) == audio < 0

\* A slip at lines 142-146: an interruption ends the call as stopSession does.
OnMessageStopsSession(s, audio, interrupted) ==
    /\ transport[s] = "open"
    /\ HasAudio(audio) => Len(units) < MaxChunks
    /\ lastInterrupted' = interrupted
    /\ IF Malformed(audio)
       THEN UNCHANGED <<nextStartTimeRef, sourcesRef, units, epoch>>
       ELSE LET start  == StartTime(nextStartTimeRef, currentTime[s])
                clock1 == IF HasAudio(audio) THEN AdvanceClock(start, audio)
                          ELSE nextStartTimeRef
                units1 == IF HasAudio(audio) THEN Append(units, Unit(s, start, audio))
                          ELSE units
                set1   == IF HasAudio(audio) THEN sourcesRef \cup {Len(units1)}
                          ELSE sourcesRef
            IN  IF interrupted
                THEN /\ units' = StopAll(units1, set1)
                     /\ sourcesRef' = ClearSet(set1)
                     /\ nextStartTimeRef' = ResetClock
                     /\ epoch' = NextEpoch(units1)
                ELSE /\ units' = units1
                     /\ sourcesRef' = set1
                     /\ nextStartTimeRef' = clock1
                     /\ epoch' = epoch
    /\ status' = IF interrupted /\ ~Malformed(audio) THEN StatusOnStop ELSE status
    /\ stream' = IF interrupted /\ ~Malformed(audio) THEN StopTracks(stream) ELSE stream
    /\ UNCHANGED <<nStarted, pc, inputCtx, outputCtx, handler, transport, connects,
                   streamRef, audioContextRef, sessionPromiseRef, sessionRef,
                   userStopped, stoppedEarly, currentTime, capVars>>
    /\ logged' = FALSE
    /\ UNCHANGED <<errored, viewVars, pureVars, histVars>>

\* lines 116-147: On Message.  A malformed payload ends the callback at the
\* throwing line (119 or 122), before anything is scheduled or reset.
OnMessage(s, audio, interrupted) ==
    /\ transport[s] = "open"
    /\ HasAudio(audio) => Len(units) < MaxChunks
    /\ lastInterrupted' = interrupted
    /\ IF Malformed(audio)
       THEN UNCHANGED <<nextStartTimeRef, sourcesRef, units, epoch>>
       ELSE LET start  == StartTime(nextStartTimeRef, currentTime[s])
                clock1 == IF HasAudio(audio) THEN AdvanceClock(start, audio)
                          ELSE nextStartTimeRef
                units1 == IF HasAudio(audio) THEN Append(units, Unit(s, start, audio))
                          ELSE units
                set1   == IF HasAudio(audio) THEN sourcesRef \cup {Len(units1)}
                          ELSE sourcesRef
            IN  IF interrupted
                THEN /\ units' = StopAll(units1, set1)
                     /\ sourcesRef' = ClearSet(set1)
                     /\ nextStartTimeRef' = ResetClock
                     /\ epoch' = NextEpoch(units1)
                ELSE /\ units' = units1
                     /\ sourcesRef' = set1
                     /\ nextStartTimeRef' = clock1
                     /\ epoch' = epoch
    /\ UNCHANGED <<lifeVars, currentTime, capVars>>
    /\ logged' = FALSE
    /\ UNCHANGED <<errored, viewVars, pureVars, histVars>>

\* line 139: source.onended of a unit that played to its end.
OnEnded(i) ==
    /\ i \in DOMAIN units
    /\ units[i].st = "active"
    /\ outputCtx[units[i].sess] = "running"
    /\ currentTime[units[i].sess] >= units[i].start + units[i].dur
    /\ units' = [units EXCEPT ![i].st = "ended"]
    /\ sourcesRef' = sourcesRef \ {i}
    /\ UNCHANGED <<lifeVars, currentTime, nextStartTimeRef, epoch, lastInterrupted, capVars>>
    /\ logged' = FALSE
    /\ UNCHANGED <<errored, viewVars, pureVars, histVars>>

\* The clocks of the running output contexts advance together, a quantum
\* at a time; a closed context's clock stands still.
Tick ==
    /\ \E s \in Sessions : outputCtx[s] = "running"
    /\ \A s \in Sessions :
          outputCtx[s] = "running" => currentTime[s] < MaxQuanta * TickLen
    /\ currentTime' = [s \in Sessions |->
                          IF outputCtx[s] = "running" THEN currentTime[s] + TickLen
                          ELSE currentTime[s]]
    /\ UNCHANGED <<lifeVars, playVars, capVars>>
    /\ UNCHANGED <<errored, logged, viewVars, pureVars, histVars>>

\* ------------------------------------------------------------------- capture
\* line 89: the frame of a capture callback, of constant amplitude v
ConstFrame(v) == [i \in 1..MaxLen |-> v]

\* lines 97-103: the payload of a frame
PcmData(frame) ==
    EncodePCM(FrameBytes([i \in 1..Len(frame) |-> ToInt16(frame[i] * 32768)]))

\* lines 105-113: the frame is handed to whatever promise the ref holds now.
Frame(s, v) ==
    [src |-> s, dst |-> sessionPromiseRef, id |-> nCaptured + 1,
     deferred |-> pc[sessionPromiseRef] # "resolved",
     mimeType |-> "audio/pcm;rate=16000", data |-> PcmData(ConstFrame(v))]

\* lines 57-64, after a render with a new volume: the cleanup of the effect
\* cancels the request the effect made itself, when that is still pending;
\* the effect requests a frame for the new callback, which holds vol.
Rerender(q, vol) ==
    Append(SelectSeq(q, LAMBDA c : ~c.eff), [vol |-> vol, eff |-> TRUE])

\* A slip at line 106: a frame that finds the promise pending fails the
\* session.
CaptureFailsHard(s, v) ==
    /\ handler[s]
    /\ inputCtx[s] = "running"
    /\ nCaptured < MaxFrames
    /\ stream[s] # "live" => v = 0
    /\ nCaptured' = nCaptured + 1
    /\ volume' = Loudness(ConstFrame(v))
    /\ rafQueue' = IF mounted /\ volume' # volume THEN Rerender(rafQueue, volume')
                   ELSE rafQueue
    /\ status' = IF sessionPromiseRef # 0 /\ pc[sessionPromiseRef] = "awaitConnect"
                 THEN "error" ELSE status
    /\ UNCHANGED <<queue, sent>>
    /\ UNCHANGED <<nStarted, pc, inputCtx, outputCtx, stream, handler, transport,
                   connects, streamRef, audioContextRef, sessionPromiseRef,
                   sessionRef, userStopped, stoppedEarly, currentTime, playVars>>
    /\ logged' = FALSE
    /\ UNCHANGED <<errored, drawn, mounted, pureVars, histVars>>

\* lines 88-114: scriptProcessor.onaudioprocess of session s.  The capture
\* context of a session is never closed and the node never disconnected, so
\* the callback keeps firing; a stream whose tracks were stopped yields silence.
Capture(s, v) ==
    /\ handler[s]
    /\ inputCtx[s] = "running"
    /\ nCaptured < MaxFrames
    /\ stream[s] # "live" => v = 0
    /\ nCaptured' = nCaptured + 1
    /\ volume' = Loudness(ConstFrame(v))
    /\ rafQueue' = IF mounted /\ volume' # volume THEN Rerender(rafQueue, volume')
                   ELSE rafQueue
    /\ IF sessionPromiseRef = 0 \/ pc[sessionPromiseRef] = "failedConnect"
       THEN UNCHANGED <<queue, sent>>
       ELSE IF pc[sessionPromiseRef] = "resolved"
            THEN sent' = Append(sent, Frame(s, v)) /\ UNCHANGED queue
            ELSE /\ queue' = [queue EXCEPT ![sessionPromiseRef] = Append(@, Frame(s, v))]
                 /\ UNCHANGED sent
    /\ UNCHANGED <<lifeVars, currentTime, playVars>>
    /\ logged' = FALSE
    /\ UNCHANGED <<errored, drawn, mounted, pureVars, histVars>>

\* ---------------------------------------------------------------- visualizer
\* A slip at line 39: a callback that does not look at the canvas draws
\* nothing after the unmount and still requests the next frame.
RenderFrameNoCheck ==
    /\ rafQueue # <<>>
    /\ drawn' = IF mounted THEN BarHeight(rafQueue[Len(rafQueue)].vol) ELSE drawn
    /\ rafQueue' = [i \in DOMAIN rafQueue |-> [rafQueue[i] EXCEPT !.eff = FALSE]]
    /\ UNCHANGED <<lifeVars, currentTime, playVars, capVars, errored, logged,
                   mounted, pureVars, histVars>>

\* lines 38-59: an animation frame.  Every pending callback runs, in the
\* order of the requests.  While the canvas is mounted a callback draws the
\* bar for the volume it holds and requests the next frame for itself
\* (line 58); after the unmount canvasRef.current is null and the callback
\* returns at line 39.
RenderFrame ==
    /\ rafQueue # <<>>
    /\ IF mounted
       THEN /\ drawn' = BarHeight(rafQueue[Len(rafQueue)].vol)
            /\ rafQueue' = [i \in DOMAIN rafQueue |-> [rafQueue[i] EXCEPT !.eff = FALSE]]
       ELSE /\ drawn' = drawn
            /\ rafQueue' = <<>>
    /\ UNCHANGED <<lifeVars, currentTime, playVars, capVars, errored, logged,
                   mounted, pureVars, histVars>>

\* lines 61-64, 183-188: the view is dismissed.  The cleanup of the
\* visualizer effect cancels the request the effect made itself, when that
\* is still pending; the cleanup of the last effect calls stopSession, whose
\* setStatus has no component left to update.
Unmount ==
    /\ mounted
    /\ mounted' = FALSE
    /\ rafQueue' = SelectSeq(rafQueue, LAMBDA c : ~c.eff)
    /\ stream' = StopTracks(stream)
    /\ outputCtx' = CloseOutput(outputCtx)
    /\ userStopped' = TRUE
    /\ stoppedEarly' = InProgress
    /\ logged' = FALSE
    /\ UNCHANGED <<status, nStarted, pc, inputCtx, handler, transport, connects,
                   streamRef, audioContextRef, sessionPromiseRef, sessionRef,
                   currentTime, drawn>>
    /\ UNCHANGED <<playVars, capVars, errored, pureVars, histVars>>

\* ------------------------------------------------------------------ history
\* part_003.  A history item is an object of strings and numbers with a
\* fresh id (crypto.randomUUID): the item of the n-th save is written n.
\* A JSON text is the sequence of its tokens: the items, and the brackets
\* and commas of the array that holds them.
LBracket == -1
RBracket == -2
Comma    == -3

\* part_003 line 13: JSON.stringify of an array of items
Stringify(list) ==
    <<LBracket>>
      \o [i \in 1..(2 * Len(list) - 1) |-> IF i % 2 = 1 THEN list[(i + 1) \div 2] ELSE Comma]
      \o <<RBracket>>

\* the text is the JSON of an array of items
WellFormed(text) ==
    /\ Len(text) >= 2
    /\ Len(text) = 2 \/ Len(text) % 2 = 1
    /\ text[1] = LBracket
    /\ text[Len(text)] = RBracket
    /\ \A i \in 2..(Len(text) - 1) :
          IF i % 2 = 0 THEN text[i] > 0 ELSE text[i] = Comma

\* part_003 line 22: JSON.parse, which throws on a malformed text
Parse(text) == [i \in 1..((Len(text) - 1) \div 2) |-> text[2 * i]]

\* part_003 lines 18-27: no text stored gives the empty list, and so does a
\* text that does not parse (the catch block).
GetHistory ==
    IF storage = <<>> THEN <<>>
    ELSE IF WellFormed(storage) THEN Parse(storage)
    ELSE <<>>

\* A slip at part_003 line 12: slice(-50), which keeps the end of the list.
SliceTail(list, from, to) ==
    SubSeq(list, Max(1, Len(list) - (to - from) + 1), Len(list))

\* part_003 line 12: Array.prototype.slice(from, to), 0 <= from <= to
Slice(list, from, to) ==
    SubSeq(list, from + 1, IF to <= Len(list) THEN to ELSE Len(list))

\* part_003 lines 5-16, with a writable storage
SaveHistoryItem ==
    /\ nSaved < MaxSaves
    /\ LET item            == nSaved + 1
           existingHistory == GetHistory
           updatedHistory  == <<item>> \o existingHistory
           trimmedHistory  == Slice(updatedHistory, 0, HistoryLimit)
       IN  /\ storage' = Stringify(trimmedHistory)
           /\ saved' = Append(saved, item)
    /\ nSaved' = nSaved + 1
    /\ UNCHANGED <<lifeVars, currentTime, playVars, capVars, viewVars,
                   errored, logged, pureVars>>

\* part_003 lines 29-31: localStorage.removeItem
ClearHistory ==
    /\ storage' = <<>>
    /\ saved' = <<>>
    /\ UNCHANGED <<nSaved, lifeVars, currentTime, playVars, capVars, viewVars,
                   errored, logged, pureVars>>

\* --------------------------------------------------------- specifications
\* The playback state (nextStartTimeRef, sourcesRef, units, currentTime) is
\* read and written only by OnMessage, OnEnded and Tick, and no lifecycle or
\* capture step reads it; the two halves of the component are explored apart.

\* Lifecycle: every user, microphone, promise and transport event.
LifeNext ==
    \/ StartOk
    \/ \E inputMade \in BOOLEAN : StartCtxFail(inputMade)
    \/ \E s \in Sessions : MicGranted(s)
    \/ \E s \in Sessions : MicDenied(s)
    \/ \E s \in Sessions : ConnectResolved(s)
    \/ \E s \in Sessions : ConnectRejected(s)
    \/ \E s \in Sessions : OnOpen(s)
    \/ \E s \in Sessions : OnClose(s)
    \/ \E s \in Sessions : OnError(s)
    \/ Stop

SpecLife == Init /\ [][LifeNext]_vars

\* Lifecycle and capture.
CapNext ==
    \/ LifeNext
    \/ \E s \in Sessions, v \in Samples : Capture(s, v)

SpecCap == Init /\ [][CapNext]_vars

\* Playback: the message callback, natural completion and the passing of
\* time, with the lifecycle events that open a transport, close an output
\* context and let a later session start while an earlier transport is
\* still open (stopSession closes no transport).
PlayNext ==
    \/ nStarted < MaxPlaySessions /\ StartOk
    \/ \E s \in Sessions : MicGranted(s)
    \/ \E s \in Sessions : OnOpen(s)
    \/ Stop
    \/ \E s \in Sessions, audio \in Payloads, interrupted \in BOOLEAN :
          OnMessage(s, audio, interrupted)
    \/ \E i \in 1..MaxChunks : OnEnded(i)
    \/ Tick

SpecPlay == Init /\ [][PlayNext]_vars

\* Playback over successive sessions: as PlayNext, with every start the
\* component allows.
ReplayNext ==
    \/ StartOk
    \/ \E s \in Sessions : MicGranted(s)
    \/ \E s \in Sessions : OnOpen(s)
    \/ Stop
    \/ \E s \in Sessions, audio \in Payloads, interrupted \in BOOLEAN :
          OnMessage(s, audio, interrupted)
    \/ \E i \in 1..MaxChunks : OnEnded(i)
    \/ Tick

SpecReplay == Init /\ [][ReplayNext]_vars

\* line 89: what the microphone of session s delivers: sound while its
\* tracks are live, silence after they were stopped.
Sound(s) == IF stream[s] = "live" THEN 1 ELSE 0

\* Sending: the lifecycle of the sessions and the capture callback, which
\* hands a frame over in the same way whatever its samples are.
SendNext ==
    \/ nStarted < MaxSendSessions /\ StartOk
    \/ \E s \in Sessions : MicGranted(s)
    \/ \E s \in Sessions : MicDenied(s)
    \/ \E s \in Sessions : ConnectResolved(s)
    \/ \E s \in Sessions : ConnectRejected(s)
    \/ \E s \in Sessions : OnOpen(s)
    \/ \E s \in Sessions : OnClose(s)
    \/ \E s \in Sessions : OnError(s)
    \/ Stop
    \/ \E s \in Sessions : Capture(s, Sound(s))

SpecSend == Init /\ [][SendNext]_vars

\* The visualizer: the animation frames, with the lifecycle and the capture
\* callback that writes the volume.
ViewNext ==
    \/ SendNext
    \/ RenderFrame

SpecView == Init /\ [][ViewNext]_vars

\* The view and its dismissal.  The browser runs the pending animation-frame
\* callbacks at every frame, so an animation frame that stays possible
\* happens.
MountNext ==
    \/ nStarted < MaxSendSessions /\ StartOk
    \/ \E s \in Sessions : MicGranted(s)
    \/ \E s \in Sessions : ConnectResolved(s)
    \/ \E s \in Sessions : OnOpen(s)
    \/ Stop
    \/ \E s \in Sessions : Capture(s, Sound(s))
    \/ RenderFrame
    \/ Unmount

SpecMount == Init /\ [][MountNext]_vars /\ WF_vars(RenderFrame)

\* The transport encoding, as a function: the input is a frame of 16-bit
\* samples; RoundTrip encodes the first n bytes of the frame and decodes the
\* result.
FramesOf(values) == UNION {[1..n -> values] : n \in 0..MaxLen}

InitCodec ==
    /\ InitComponent
    /\ pureIn \in FramesOf(Int16s)
    /\ pureOut = [done |-> FALSE, len |-> 0, decoded |-> <<>>]

RoundTrip(n) ==
    /\ n <= 2 * Len(pureIn)
    /\ pureOut' = [done |-> TRUE, len |-> n,
                   decoded |-> DecodeAudio(EncodePCM(SubSeq(FrameBytes(pureIn), 1, n)))]
    /\ UNCHANGED <<lifeVars, currentTime, playVars, capVars, viewVars,
                   errored, logged, pureIn, histVars>>

CodecNext == \E n \in 0..(2 * MaxLen) : RoundTrip(n)

SpecCodec == InitCodec /\ [][CodecNext]_vars

\* The loudness of a frame, as a function: the input is a frame of at least
\* one sample.
InitLoud ==
    /\ InitComponent
    /\ pureIn \in FramesOf(Levels) \ {<<>>}
    /\ pureOut = [done |-> FALSE, loudness |-> 0]

Measure ==
    /\ ~pureOut.done
    /\ pureOut' = [done |-> TRUE, loudness |-> Loudness(pureIn)]
    /\ UNCHANGED <<lifeVars, currentTime, playVars, capVars, viewVars,
                   errored, logged, pureIn, histVars>>

LoudNext == Measure

SpecLoud == InitLoud /\ [][LoudNext]_vars

\* The history service: saves and clears, in any order.
HistNext ==
    \/ SaveHistoryItem
    \/ ClearHistory

SpecHist == Init /\ [][HistNext]_vars

\* ------------------------------------------------------------------- claims
End(u) == u.start + u.dur

\* C1: within one session, with no interruption between them, a chunk
\* scheduled later starts at or after the end of every chunk scheduled
\* earlier: the playback intervals [start, start + dur) do not overlap.
C1_NoOverlap ==
    \A i, j \in DOMAIN units :
        (i < j /\ units[i].sess = units[j].sess /\ units[i].gen = units[j].gen)
            => units[j].start >= End(units[i])

\* Two chunks of one session were scheduled with no interruption between them.
C1_Witness ==
    \E i, j \in DOMAIN units :
        /\ i < j
        /\ units[i].sess = units[j].sess
        /\ units[i].gen = units[j].gen

\* C2 (as claimed): once the message callback has handled a message carrying
\* the interrupted flag, no scheduled unit is still active, the active
\* playback set is empty and the virtual output clock is 0 (until the next
\* message: only the message callback schedules units or moves the clock).
C2_InterruptedResets ==
    lastInterrupted =>
        /\ sourcesRef = {}
        /\ nextStartTimeRef = 0
        /\ \A i \in DOMAIN units : units[i].st # "active"

\* The value of the virtual clock when unit i was scheduled: the end of the
\* unit scheduled before it, or 0 at the start and after an interruption.
ClockBefore(i) ==
    IF i > 1 /\ units[i - 1].gen = units[i].gen THEN End(units[i - 1]) ELSE 0

\* C3: every chunk is scheduled at max(virtual clock, current output time)
\* and the clock then becomes start + duration; so a chunk that arrives
\* while the output time is not past the clock starts exactly where the
\* chunk before it ends.
C3_GaplessChaining ==
    /\ \A i \in DOMAIN units :
          /\ units[i].start = Max(ClockBefore(i), units[i].at)
          /\ (i > 1 /\ units[i - 1].gen = units[i].gen /\ units[i].at <= End(units[i - 1]))
                => units[i].start = End(units[i - 1])
    /\ nextStartTimeRef =
          IF units # <<>> /\ units[Len(units)].gen = epoch
          THEN End(units[Len(units)]) ELSE 0

\* The scenario of the specification: a 0.5 s chunk and then a 0.3 s chunk,
\* back to back from clock 0; the second starts 0.5 s after the first.
C3_Witness ==
    /\ Len(units) = 2
    /\ units[1].start = 0 /\ units[1].dur = 5
    /\ units[2].start = 5 /\ units[2].dur = 3
    /\ nextStartTimeRef = 8

\* A start that fails in the same turn (a context constructor throws) goes
\* through connecting to error before anything is rendered.
StartAndFail == \E inputMade \in BOOLEAN : StartCtxFail(inputMade)

\* C4 (as claimed): the status changes only along the defined edges, each by
\* its own event.
C4_OnlyDefinedEdges ==
    [][status' # status =>
        \/ StartOk /\ status \in {"idle", "error"} /\ status' = "connecting"
        \/ StartAndFail /\ status \in {"idle", "error"} /\ status' = "error"
        \/ (\E s \in Sessions : OnOpen(s))
              /\ status = "connecting" /\ status' = "connected"
        \/ (\E s \in Sessions : OnError(s) \/ MicDenied(s) \/ ConnectRejected(s))
              /\ status \in {"connecting", "connected"} /\ status' = "error"
        \/ (\E s \in Sessions : OnClose(s))
              /\ status = "connected" /\ status' = "idle"
        \/ Stop /\ status' = "idle"]_vars

\* C5: a user start (whose contexts are created) sets status to connecting,
\* the open event of a connection sets it to connected, and a user stop from
\* connected sets it to idle.
C5_StartOpenStop ==
    [][/\ StartOk => (status \in {"idle", "error"} /\ status' = "connecting")
       /\ \A s \in Sessions : OnOpen(s) => status' = "connected"
       /\ (Stop /\ status = "connected") => status' = "idle"]_vars

\* A session restarted from error (the first start was denied the
\* microphone) has opened, and the user has then stopped it.
C5_Witness ==
    /\ nStarted = 2
    /\ pc[1] = "failedMic"
    /\ transport[2] = "open"
    /\ userStopped
    /\ status = "idle"

\* C6: an error event (the transport's error callback, or an exception
\* during startup) leaves status = error, whatever it was before.
C6_ErrorLandsInError ==
    [][/\ \A s \in Sessions :
             (OnError(s) \/ MicDenied(s) \/ ConnectRejected(s)) => status' = "error"
       /\ StartAndFail => status' = "error"]_vars

\* The error callback of a transport still open has fired after a user stop:
\* status went from idle to error.
C6_Witness ==
    /\ status = "error"
    /\ userStopped
    /\ \E s \in Sessions : transport[s] = "open"

\* C7: a start denied the microphone ends in error; its connect operation is
\* never invoked and its transport never opens, so that start never sets
\* status to connected.
C7_MicDeniedNeverConnects ==
    [][\A s \in Sessions :
          /\ MicDenied(s) => (status' = "error" /\ pc'[s] = "failedMic")
          /\ pc[s] = "failedMic" =>
                /\ pc'[s] = "failedMic"
                /\ connects'[s] = 0
                /\ transport'[s] = "none"
                /\ ~handler'[s]]_vars

\* The scenario: the first start, from idle, was denied the microphone.
C7_Witness ==
    /\ nStarted = 1
    /\ pc[1] = "failedMic"
    /\ status = "error"
    /\ connects[1] = 0

\* C8 (as claimed): a user stop leaves no acquired microphone stream with a
\* live track, closes the output context of the session being stopped (the
\* latest start) and sets status to idle.
C8_StopReleases ==
    [][Stop =>
        /\ status' = "idle"
        /\ \A s \in Sessions : stream'[s] # "live"
        /\ nStarted > 0 => outputCtx'[nStarted] # "running"]_vars

\* C9 (as claimed): after a user stop and until the next user start no
\* capture callback runs (none computes loudness or hands a frame over).
C9_NoCaptureAfterStop ==
    [][(\E s \in Sessions, v \in Samples : Capture(s, v)) => ~userStopped]_vars

\* Everything session s had acquired is released.
Released(s) ==
    /\ stream[s] # "live"
    /\ inputCtx[s] # "running"
    /\ outputCtx[s] # "running"

\* C10 (as claimed): when a session ends by a failure or by a remote close,
\* every resource it had acquired is released.
C10_FailureReleases ==
    [][\A s \in Sessions :
          (MicDenied(s) \/ ConnectRejected(s) \/ OnError(s) \/ OnClose(s))
              => Released(s)']_vars

\* C11: after a transport error received while session t was connected, a
\* capture callback hands t no frame: no call of t's sendRealtimeInput is
\* made for a frame captured after the error.
C11_NoSendAfterError ==
    [][\A s \in Sessions, v \in Samples :
          (Capture(s, v) /\ sessionPromiseRef # 0 /\ errored[sessionPromiseRef])
              => sent' = sent]_vars

C13_BestEffort ==
    [][LET ref == sessionPromiseRef
       IN  /\ (nCaptured' # nCaptured /\ ref # 0 /\ pc[ref] = "awaitConnect")
                 => /\ status' = status
                    /\ sent' = sent
                    /\ \E f \in {queue'[ref][Len(queue'[ref])]} :
                          /\ f.id = nCaptured'
                          /\ queue' = [queue EXCEPT ![ref] = Append(@, f)]
           /\ (nCaptured' # nCaptured /\ (ref = 0 \/ pc[ref] = "failedConnect"))
                 => status' = status /\ sent' = sent /\ queue' = queue
           /\ \A t \in Sessions :
                 /\ (pc[t] = "awaitConnect" /\ pc'[t] = "resolved")
                       => sent' = sent \o queue[t] /\ queue'[t] = <<>>
                 /\ (pc[t] = "awaitConnect" /\ pc'[t] = "failedConnect")
                       => sent' = sent /\ queue'[t] = <<>>
                 /\ queue'[t] # <<>> => pc'[t] = "awaitConnect"]_vars

\* A frame waits on the pending promise of a session that is open, and the
\* status is still connected.
C13_Witness ==
    \E t \in Sessions :
        /\ pc[t] = "awaitConnect"
        /\ queue[t] # <<>>
        /\ status = "connected"

\* C14: while the status is connecting, no captured frame has been sent to
\* the session being established (the one started last) and none waits on
\* its connect promise.
C14_NoFrameWhileConnecting ==
    status = "connecting" =>
        /\ nStarted > 0 => queue[nStarted] = <<>>
        /\ \A i \in DOMAIN sent : sent[i].dst # nStarted

\* the frames handed to session t: first those sent, then those waiting
Handed(t) ==
    SelectSeq(sent, LAMBDA f : f.dst = t) \o queue[t]

\* the number of frames waiting on the promises of sessions 1..n
RECURSIVE Waiting(_)
Waiting(n) == IF n = 0 THEN 0 ELSE Len(queue[n]) + Waiting(n - 1)

\* the payloads a frame of MaxLen samples can be encoded to
FramePayloads == {PcmData(ConstFrame(v)) : v \in Samples}

\* C15: every capture callback makes at most one payload, and exactly one
\* while no connect promise was rejected; a payload has the mime type
\* audio/pcm;rate=16000 and the encoding of a frame of 2 * MaxLen bytes as
\* data; the payloads handed to one session, the deferred ones included,
\* are in capture order.
C15_OnePayloadInOrder ==
    /\ \A t \in Sessions :
          LET h == Handed(t)
          IN  /\ \A i, j \in DOMAIN h : i < j => h[i].id < h[j].id
              /\ \A i \in DOMAIN h :
                    /\ h[i].id \in 1..nCaptured
                    /\ h[i].mimeType = "audio/pcm;rate=16000"
                    /\ h[i].data \in FramePayloads
                    /\ Len(DecodeAudio(h[i].data)) = 2 * MaxLen
    /\ \A i \in DOMAIN sent : sent[i].dst \in Sessions
    /\ \A t, u \in Sessions :
          t # u => \A i \in DOMAIN Handed(t), j \in DOMAIN Handed(u) :
                      Handed(t)[i].id # Handed(u)[j].id
    /\ (\A t \in Sessions : pc[t] # "failedConnect")
          => nCaptured = Len(sent) + Waiting(MaxSessions)

\* Two frames were sent to one session, the first after waiting on the
\* pending promise, the second at once.
C15_Witness ==
    /\ Len(sent) = 2
    /\ sent[1].dst = sent[2].dst
    /\ sent[1].deferred
    /\ ~sent[2].deferred

\* C16: decoding the encoding of a sequence of bytes gives the sequence
\* back; for the 2N bytes of a frame of N 16-bit samples the result has 2N
\* bytes and, read as 16-bit samples, is the frame.
C16_RoundTrip ==
    pureOut.done =>
        /\ pureOut.decoded = SubSeq(FrameBytes(pureIn), 1, pureOut.len)
        /\ pureOut.len = 2 * Len(pureIn)
              => /\ Len(pureOut.decoded) = 2 * Len(pureIn)
                 /\ BytesFrame(pureOut.decoded) = pureIn

\* A frame with the samples -32768 and 255 went through whole.
C16_Witness ==
    /\ pureOut.done
    /\ Len(pureIn) >= 2
    /\ pureIn[1] = -32768
    /\ pureIn[2] = 255
    /\ pureOut.len = 2 * Len(pureIn)

\* C17: the loudness of a frame is 0 when every sample is 0 and above 0
\* when a sample is not.
C17_LoudnessZeroIffSilent ==
    pureOut.done =>
        /\ pureOut.loudness >= 0
        /\ pureOut.loudness = 0 <=> \A i \in DOMAIN pureIn : pureIn[i] = 0

\* The loudness of a frame with one sample that is not 0 was computed.
C17_Witness ==
    /\ pureOut.done
    /\ Len(pureIn) = MaxLen
    /\ Cardinality({i \in DOMAIN pureIn : pureIn[i] # 0}) = 1
    /\ pureOut.loudness > 0

\* C18: a message with the interrupted flag changes nothing but the playback
\* state: the status, the microphone streams, the audio contexts, the
\* session handle and promise, the transports and the installed capture
\* handlers stay as they are, and so does everything the capture callback
\* has written.
C18_InterruptionOnlyPlayback ==
    [][\/ UNCHANGED <<status, stream, streamRef, inputCtx, outputCtx,
                      audioContextRef, sessionRef, sessionPromiseRef,
                      handler, transport, connects, pc, nStarted,
                      volume, queue, sent, nCaptured>>
       \/ ~ \E s \in Sessions, audio \in Payloads : OnMessage(s, audio, TRUE)]_vars

\* An interruption has stopped a unit of a session that is connected, its
\* microphone live and its handler installed.
C18_Witness ==
    /\ lastInterrupted
    /\ status = "connected"
    /\ \E i \in DOMAIN units :
          /\ units[i].st = "stopped"
          /\ stream[units[i].sess] = "live"
          /\ handler[units[i].sess]
          /\ outputCtx[units[i].sess] = "running"

\* C19: a message with a malformed audio payload is a fault of that message
\* alone: the callback logs it and drops the chunk; the status, the virtual
\* clock, the active set and the units stay as they are, and the transport
\* stays open for the messages that follow.
C19_MalformedDroppedAndLogged ==
    [][\A s \in Sessions, audio \in Payloads, interrupted \in BOOLEAN :
          (Malformed(audio) /\ OnMessage(s, audio, interrupted))
              => /\ logged'
                 /\ UNCHANGED <<status, nextStartTimeRef, sourcesRef, units, transport>>]_vars

\* C20: every callback that runs in an animation frame draws from the volume
\* written last, never from an older one; the bar it leaves on the canvas
\* has the height min(CanvasHeight, 5 * volume * CanvasHeight), which lies
\* in 0..CanvasHeight and does not fall when the volume rises.
C20_DrawsLatestVolume ==
    [][RenderFrame
          => /\ \A i \in DOMAIN rafQueue : rafQueue[i].vol = volume
             /\ drawn' = BarHeight(volume)
             /\ drawn' \in 0..CanvasHeight
             /\ \A a, b \in 0..(2 * Scale) :
                   a <= b => BarHeight(a) <= BarHeight(b)]_vars

\* C21: the virtual clock never goes down in a step that handles audio
\* only; a step in which it goes down is a message with the interrupted
\* flag (a session stop lowers it too, if it changes it at all), and the
\* clock is 0 after it.
C21_ClockMonotone ==
    [][\/ nextStartTimeRef' >= nextStartTimeRef
       \/ /\ nextStartTimeRef' = 0
          /\ \/ Stop
             \/ \E s \in Sessions, audio \in Payloads : OnMessage(s, audio, TRUE)]_vars

\* The clock was advanced by a chunk, reset by an interruption and advanced
\* again by a second chunk.
C21_Witness ==
    /\ Len(units) = 2
    /\ units[1].gen # units[2].gen
    /\ units[1].st = "stopped"
    /\ nextStartTimeRef = End(units[2])
    /\ nextStartTimeRef > 0

\* the units that a step stops by force when it closes their output context
\* (line 178): those scheduled on a context that was running before the step
\* and is closed after it
ClosedUnder(i) ==
    outputCtx[units'[i].sess] = "running" /\ outputCtx'[units'[i].sess] = "closed"

\* C22: the active playback set holds exactly the units that were scheduled
\* and have neither played to their end nor been stopped by force: it holds
\* no unit that ended or was stopped by an interruption, it holds every
\* unit that is still to play on a running context, and a session stop,
\* which closes the output context, leaves none of that context's units
\* in the set.
C22_ActiveSetExact ==
    /\ [](/\ \A i \in sourcesRef : i \in DOMAIN units /\ units[i].st = "active"
          /\ \A i \in DOMAIN units :
                (units[i].st = "active" /\ outputCtx[units[i].sess] = "running")
                    => i \in sourcesRef)
    /\ [][\A i \in sourcesRef' : ~ClosedUnder(i)]_vars

\* C23: the visualizer loop terminates when the view is torn down: once the
\* component is unmounted, eventually no render callback is pending, and
\* from then on none is ever pending again (none reschedules itself).
C23_LoopTerminates == ~mounted ~> [](rafQueue = <<>>)

\* A frame was drawn with a sound, so a loop was running when the view was
\* dismissed; it survived the cleanup of the effect, ran once more, found no
\* canvas and returned.
C23_Witness ==
    /\ ~mounted
    /\ drawn > 0
    /\ rafQueue = <<>>

\* C24: after a stop and a new start, the first audio chunk of the new
\* session is scheduled at the current time of the new output context: the
\* virtual clock carries no offset over from the session before.
C24_FreshClockPerSession ==
    \A i \in DOMAIN units :
        (/\ units[i].sess > 1
         /\ \A j \in 1..(i - 1) : units[j].sess # units[i].sess)
            => units[i].start = units[i].at

\* the sessions whose capture callback still runs and has a promise to hand
\* its frames to
Forwarding ==
    {s \in Sessions : /\ handler[s]
                      /\ inputCtx[s] = "running"
                      /\ sessionPromiseRef # 0
                      /\ pc[sessionPromiseRef] # "failedConnect"}

\* C25: at most one capture handler is live and forwarding at any time, and
\* no frame captured by the pipeline of an earlier session is sent to a
\* session started later.
C25_OneCapturePipeline ==
    /\ Cardinality(Forwarding) <= 1
    /\ \A i \in DOMAIN sent : ~(sent[i].src < sent[i].dst)

\* the start made last has run to its end: startSession returned or threw,
\* and the transport it opened has reported
Settled ==
    /\ pc[nStarted] \notin {"awaitMic", "awaitConnect"}
    /\ transport[nStarted] # "pending"

\* C26: when the user stopped while the start was in progress, then once
\* the pending steps of that start have finished no microphone track of it
\* is live, no connection of it is open with capture running, and the
\* status is idle.
C26_StopDuringStartSettles ==
    (stoppedEarly /\ Settled) =>
        /\ stream[nStarted] # "live"
        /\ ~(transport[nStarted] = "open" /\ handler[nStarted])
        /\ status = "idle"

\* C27: both audio contexts a start opened, the capture context and the
\* output context, are closed once the session has been stopped (from the
\* stop until the next start).
C27_ContextsClosedOnStop ==
    userStopped =>
        /\ inputCtx[nStarted] = "closed"
        /\ outputCtx[nStarted] = "closed"

\* C28: while the component is mounted, at most one render callback of the
\* visualizer is pending at any time.
C28_OnePendingCallback == mounted => Len(rafQueue) <= 1

\* C29: after any sequence of saves the stored history is the JSON text of
\* the min(k, HistoryLimit) items saved last, newest first, k being the
\* number of items saved since the storage was last empty; it never holds
\* more than HistoryLimit items, and getHistory returns exactly that list.
C29_HistoryNewestFirst ==
    LET k == Len(saved)
        n == IF k <= HistoryLimit THEN k ELSE HistoryLimit
        kept == [i \in 1..n |-> saved[k + 1 - i]]
    IN  /\ Len(GetHistory) <= HistoryLimit
        /\ GetHistory = kept
        /\ k > 0 => storage = Stringify(kept)

\* More items were saved than the history holds: the two oldest are gone.
C29_Witness ==
    /\ Len(saved) = HistoryLimit + 2
    /\ Len(GetHistory) = HistoryLimit
    /\ GetHistory[1] = saved[Len(saved)]
    /\ GetHistory[HistoryLimit] = saved[3]

====
